---- MODULE Spec2Model ----
(***************************************************************************)
(* The render queue database of renderqueue/database.py (class             *)
(* RenderQueue) and the dequeue sequence of renderqueue/worker.py.         *)
(*                                                                         *)
(* The database is a directory tree.  A job is the file                    *)
(* jobs/<jobID>.json; a task is a file <jobID>_<taskNo>.json that lies in  *)
(* tasks/queued, tasks/completed, tasks/failed or workers/<workerID>; a    *)
(* worker is the directory workers/<workerID> with its workerinfo.json.    *)
(* The state of a task is the directory its file lies in.                  *)
(***************************************************************************)
EXTENDS Integers, Sequences, FiniteSets, TLC

\* ------------------------------------------------------------------ bounds
MaxJobs == 2        \* job identifiers uuid4 hands out in one behaviour
MaxWorkers == 2     \* worker identifiers uuid4 hands out in one behaviour
MaxTasks == 3       \* entries of a 'tasks' list, and task files of the jobs in the queue
MaxErrors == 1      \* error lines counted in the output of one render
MaxRenderTasks == 1 \* tasks of a job the RenderWorkers render

\* ------------------------------------------------- frame range notation
\* A frame string ("1-5", "7", "1-5, 8-10") is the sequence of its tokens:
\* a frame number, the hyphen or the list separator.
DASH == 0 - 1
COMMA == 0 - 2

Single(a) == <<a>>
FrameRange(a, b) == <<a, DASH, b>>

Min(S) == CHOOSE x \in S : \A y \in S : x <= y
Max(S) == CHOOSE x \in S : \A y \in S : x >= y

SeqToSet(s) == { s[i] : i \in 1..Len(s) }

\* str.split(sep): the pieces of s between the separators.
RECURSIVE split(_, _)
split(s, sep) ==
    IF \A i \in 1..Len(s) : s[i] # sep
    THEN <<s>>
    ELSE LET k == Min({ i \in 1..Len(s) : s[i] = sep })
         IN  <<SubSeq(s, 1, k - 1)>> \o split(SubSeq(s, k + 1, Len(s)), sep)

\* The frames a to b in ascending order.
RECURSIVE Ascending(_, _)
Ascending(a, b) == IF a > b THEN <<>> ELSE <<a>> \o Ascending(a + 1, b)

\* sequence.numList: the list of the frame numbers a frame string denotes.
RECURSIVE numListParts(_)
numListParts(parts) ==
    IF parts = <<>> THEN <<>>
    ELSE LET p == Head(parts)
             nums == IF Len(p) = 3 THEN Ascending(p[1], p[3]) ELSE <<p[1]>>
         IN  nums \o numListParts(Tail(parts))

numList(frames) == numListParts(split(frames, COMMA))

\* sequence.numRange: the frame string of a list of frame numbers, duplicates
\* removed, sorted, each run of consecutive numbers written "first-last".
RECURSIVE numRangeSet(_)
numRangeSet(S) ==
    IF S = {} THEN <<>>
    ELSE LET lo == Min(S)
             hi == Max({ h \in S : \A x \in lo..h : x \in S })
             run == IF lo = hi THEN Single(lo) ELSE FrameRange(lo, hi)
             rest == S \ (lo..hi)
         IN  IF rest = {} THEN run ELSE run \o <<COMMA>> \o numRangeSet(rest)

numRange(numbers) == numRangeSet(SeqToSet(numbers))

\* int(text): defined on a piece that is one frame number.
IsInt(piece) == Len(piece) = 1 /\ piece[1] >= 0

\* ------------------------------------------------------------------ state
VARIABLES
    jobs,        \* jobs/<jobID>.json: jobID -> the job's data
    tasks,       \* the task files of tasks/* and workers/*
    workers,     \* workers/<id>/workerinfo.json: id -> the worker's data
    nextJob,     \* job identifiers uuid4 has handed out
    nextWorker,  \* worker identifiers uuid4 has handed out
    wpc,         \* each worker process: where it is in its dequeue sequence
    cand,        \* each worker process: the task dequeueJob returned to it
    pending,     \* combineTasks between reading the tasks and rewriting them
    deleting,    \* deleteJob between listing the task files and removing them
    rw           \* each RenderWorker: its status, its options and its render

vars == <<jobs, tasks, workers, nextJob, nextWorker, wpc, cand, pending, deleting, rw>>

JobIDs == 1..MaxJobs
WorkerIDs == 1..MaxWorkers
TaskNos == 0..(MaxTasks - 1)

\* The priorities and worker statuses the callers pass.
Priorities == {0, 100}
PriorityArgs == Priorities \cup {0 - 1, 101}
\* The priorities setPriority accepts: 0 <= priority <= 100.
ValidPriorities == 0..100
Statuses == {"disabled"}

\* The statuses a worker sets: "disabled", "idle", "rendering".
StatusArgs == {"disabled", "idle", "rendering"}

\* A workerinfo.json or job file that does not hold its record any more: text
\* that is not JSON (an empty or cut-off file), or bytes that are not text.
UnparseableFile == [id |-> 0, status |-> "not JSON"]
UndecodableFile == [id |-> 0, status |-> "not text"]
CorruptFiles == {UnparseableFile, UndecodableFile}

\* The directories a task file lies in (self.db_queued, self.db_completed,
\* self.db_failed, and the folder of a worker under self.db_workers).
db_queued == [area |-> "queued", worker |-> 0]
db_completed == [area |-> "completed", worker |-> 0]
db_failed == [area |-> "failed", worker |-> 0]
WorkerDir(w) == [area |-> "workers", worker |-> w]

\* The file <dir>/<jobID>_<taskNo>.json and the task data it holds.
File(dir, jobID, taskNo, frames) ==
    [area |-> dir.area, worker |-> dir.worker,
     jobID |-> jobID, taskNo |-> taskNo, frames |-> frames]
Dir(f) == [area |-> f.area, worker |-> f.worker]
TaskData(f) == [jobID |-> f.jobID, taskNo |-> f.taskNo, frames |-> f.frames]
NoTask == [jobID |-> 0, taskNo |-> 0, frames |-> <<>>]

\* What a call returns: None, True, a task, a task number, or an exception.
Ret(kind, task, id) == [kind |-> kind, task |-> task, id |-> id]
None == Ret("None", NoTask, 0)
True == Ret("True", NoTask, 0)
Raised == Ret("raise", NoTask, 0)

NoPending ==
    [active |-> FALSE, jobID |-> 0, taskIDs |-> <<>>, newtaskdata |-> NoTask,
     newframerange |-> <<>>, tasks_to_delete |-> {}]

\* No deleteJob is under way.
NoDeleting == [active |-> FALSE, jobID |-> 0, files |-> {}]

\* A RenderWorker after __init__: the local worker is disabled, 'Continue
\* After Current Task Completion' is checked, no render process runs.
\* (running: the QProcess has been started and its finished signal has not
\* been handled; redequeue: renderComplete has yet to make its call of
\* dequeue.)
NewRenderWorker ==
    [workerStatus |-> "disabled", stopAfterTask |-> FALSE, running |-> FALSE,
     renderTaskInterrupted |-> FALSE, renderTaskErrors |-> 0,
     renderJobID |-> 0, renderTaskID |-> 0, redequeue |-> FALSE]

\* The frame lists the submitter passes as kwargs['tasks']: a frame range cut
\* into tasks (with a hole after every second task), or the same frame twice.
RECURSIVE Chunks(_)
Chunks(n) ==
    IF n = 0 THEN <<>>
    ELSE LET k == (n - 1) \div 2
             c == IF (n - 1) % 2 = 0 THEN FrameRange(5 * k + 1, 5 * k + 2)
                                     ELSE Single(5 * k + 3)
         IN  Append(Chunks(n - 1), c)
FrameLists == { Chunks(n) : n \in 0..MaxTasks } \cup { <<Single(3), Single(3)>> }

\* The task lists the operator passes to combineTasks: tasks of the job, each
\* listed once.
TaskIDLists ==
    UNION { { s \in [1..n -> TaskNos] : \A i, k \in 1..n : s[i] = s[k] => i = k } :
              n \in 0..MaxTasks }

\* The orders in which glob.glob can list a set of files.
Orderings(S) ==
    { s \in [1..Cardinality(S) -> S] : \A i, k \in 1..Cardinality(S) : s[i] = s[k] => i = k }

Init ==
    /\ jobs = [j \in {} |-> 0]
    /\ tasks = {}
    /\ workers = [w \in {} |-> 0]
    /\ nextJob = 0
    /\ nextWorker = 0
    /\ wpc = [w \in WorkerIDs |-> "idle"]
    /\ cand = [w \in WorkerIDs |-> NoTask]
    /\ pending = NoPending
    /\ deleting = NoDeleting
    /\ rw = [w \in WorkerIDs |-> NewRenderWorker]

\* --------------------------------------------------------- file primitives
SamePath(f, g) ==
    f.area = g.area /\ f.worker = g.worker /\ f.jobID = g.jobID /\ f.taskNo = g.taskNo

\* oswrapper.move(filename, dst): the file is renamed into the folder dst; a
\* file that is gone, or a name dst already holds, leaves the tree as it is.
move(T, f, dst) ==
    LET g == File(dst, f.jobID, f.taskNo, f.frames)
    IN  IF f \in T /\ ~ \E h \in T : SamePath(h, g)
        THEN (T \ {f}) \cup {g}
        ELSE T

\* oswrapper.recurseRemove(path) on a task file.
recurseRemove(T, f) == T \ {f}

\* open(datafile, 'w'); json.dump(taskdata): the file is created or replaced.
writeFile(T, dir, taskdata) ==
    LET g == File(dir, taskdata.jobID, taskdata.taskNo, taskdata.frames)
    IN  { h \in T : ~ SamePath(h, g) } \cup {g}

\* glob.glob('<root>/*/*/<jobID>_*.json'): the files of a job, in any folder.
GlobJob(T, jobID) == { f \in T : f.jobID = jobID }
\* glob.glob('<root>/*/*/<jobID>_<taskID>.json')
GlobTask(T, jobID, taskID) == { f \in T : f.jobID = jobID /\ f.taskNo = taskID }

\* for filename in glob.glob(path): if '<area>' not in filename: move(filename, dst)
RECURSIVE MoveEach(_, _, _)
MoveEach(T, files, dst) ==
    IF files = <<>> THEN T
    ELSE LET f == Head(files)
         IN  MoveEach(IF f.area # dst.area THEN move(T, f, dst) ELSE T, Tail(files), dst)

\* ------------------------------------------------------------ the queries
\* getJobs: the job files in the order glob.glob lists them.
getJobs(listing) == [i \in 1..Len(listing) |-> jobs[listing[i]]]

\* getTasks: the task data of every file of the job, with the status the
\* folder in its path gives.
\* (a changed copy of StatusOf: 'failed' is looked for before 'completed', and
\* gives 'Done')
StatusOfSwapped(f) ==
    IF f.area = "workers" THEN "Working"
    ELSE IF f.area = "queued" THEN "Queued"
    ELSE IF f.area = "failed" THEN "Done"
    ELSE IF f.area = "completed" THEN "Failed"
    ELSE "Unknown"
StatusOf(f) ==
    IF f.area = "workers" THEN "Working"
    ELSE IF f.area = "queued" THEN "Queued"
    ELSE IF f.area = "completed" THEN "Done"
    ELSE IF f.area = "failed" THEN "Failed"
    ELSE "Unknown"
getTasks(T, jobID) ==
    { [jobID |-> f.jobID, taskNo |-> f.taskNo, frames |-> f.frames, status |-> StatusOf(f)] :
        f \in GlobJob(T, jobID) }

\* (a changed copy of getQueuedTasks: the files in the workers' folders are
\* listed too)
getQueuedTasksOrWorking(jobID) ==
    { TaskData(f) : f \in { g \in tasks : g.area \in {"queued", "workers"} /\ g.jobID = jobID } }

\* getQueuedTasks: the task data of the job's files in tasks/queued.
getQueuedTasks(jobID) ==
    { TaskData(f) : f \in { g \in tasks : Dir(g) = db_queued /\ g.jobID = jobID } }

\* sorted(jobs, key=itemgetter('priority'), reverse=True): a stable sort, so
\* jobs of one priority keep the order of the listing.
\* (a changed copy of InsertByPriority: the sort without reverse=True)
RECURSIVE InsertAscending(_, _)
InsertAscending(job, sorted) ==
    IF sorted = <<>> THEN <<job>>
    ELSE IF Head(sorted).priority <= job.priority
         THEN <<Head(sorted)>> \o InsertAscending(job, Tail(sorted))
         ELSE <<job>> \o sorted

RECURSIVE InsertByPriority(_, _)
InsertByPriority(job, sorted) ==
    IF sorted = <<>> THEN <<job>>
    ELSE IF Head(sorted).priority >= job.priority
         THEN <<Head(sorted)>> \o InsertByPriority(job, Tail(sorted))
         ELSE <<job>> \o sorted
RECURSIVE SortByPriority(_)
SortByPriority(js) ==
    IF js = <<>> THEN <<>>
    ELSE InsertByPriority(js[Len(js)], SortByPriority(SubSeq(js, 1, Len(js) - 1)))

\* (a changed copy of FirstByTaskNo: the last task of the sorted list)
LastByTaskNo(ts) == CHOOSE t \in ts : \A u \in ts : t.taskNo >= u.taskNo

\* sorted(tasks, key=itemgetter('taskNo'))[0]
FirstByTaskNo(ts) == CHOOSE t \in ts : \A u \in ts : t.taskNo <= u.taskNo

\* (a changed copy of FirstQueued: None is returned inside the loop, after the
\* first job)
FirstQueuedHeadOnly(js) ==
    IF js = <<>> THEN None
    ELSE IF getQueuedTasks(Head(js).jobID) # {}
         THEN Ret("task", FirstByTaskNo(getQueuedTasks(Head(js).jobID)), 0)
         ELSE None

\* The loop of dequeueJob over the sorted jobs.
RECURSIVE FirstQueued(_)
FirstQueued(js) ==
    IF js = <<>> THEN None
    ELSE IF getQueuedTasks(Head(js).jobID) # {}
         THEN Ret("task", FirstByTaskNo(getQueuedTasks(Head(js).jobID)), 0)
         ELSE FirstQueued(Tail(js))

\* (a changed copy of dequeueJob: the jobs of priority zero are left out, as
\* in the loop over range(100, 0, -1))
dequeueJobUnpaused(listing) ==
    FirstQueued(SortByPriority(SelectSeq(getJobs(listing), LAMBDA job : job.priority # 0)))

dequeueJob(listing) == FirstQueued(SortByPriority(getJobs(listing)))

\* getJobs and dequeueJob on a store that holds a job file json.load cannot
\* load: getJobs has no try, so the exception leaves getJobs and dequeueJob.
getJobsOutcome(listing) ==
    IF \E i \in 1..Len(listing) : jobs[listing[i]] \in CorruptFiles
    THEN [kind |-> "raise", jobs |-> <<>>]
    ELSE [kind |-> "jobs", jobs |-> getJobs(listing)]
dequeueJobOutcome(listing) ==
    IF getJobsOutcome(listing).kind = "raise" THEN Raised ELSE dequeueJob(listing)

\* ------------------------------------------------------------ job calls
\* Write job data file.
newJobData(J, jobID, priority, frameList) ==
    [j \in DOMAIN J \cup {jobID} |->
        IF j = jobID THEN [jobID |-> jobID, priority |-> priority, tasks |-> frameList]
        ELSE J[j]]

\* (a changed copy of newJobTasks: the tasks are numbered from 1)
newJobTasksFromOne(T, jobID, frameList) ==
    T \cup { File(db_queued, jobID, i, frameList[i]) : i \in 1..Len(frameList) }

\* Write tasks and place in queue.
newJobTasks(T, jobID, frameList) ==
    { h \in T : ~ \E i \in 1..Len(frameList) :
                    SamePath(h, File(db_queued, jobID, i - 1, frameList[i])) }
        \cup { File(db_queued, jobID, i - 1, frameList[i]) : i \in 1..Len(frameList) }

\* newJob has no return statement.
newJobReturn(jobID) == None

\* jobID = uuid.uuid4().hex: an identifier never handed out before.
newJob(priority, frameList) ==
    /\ nextJob < MaxJobs
    /\ Cardinality({ f \in tasks : f.jobID \in DOMAIN jobs }) + Len(frameList) <= MaxTasks
    /\ LET jobID == nextJob + 1
       IN  /\ nextJob' = jobID
           /\ jobs' = newJobData(jobs, jobID, priority, frameList)
           /\ tasks' = newJobTasks(tasks, jobID, frameList)
    /\ UNCHANGED <<workers, nextWorker, wpc, cand, pending, deleting, rw>>

\* What deleteJob returns: True, after a file in a worker's folder as after any
\* other (the file's name is only printed).
deleteJobReturn(T, jobID) == True

\* (a changed copy of deleteJob: the files in the workers' folders are left)
deleteJobNotWorkers(jobID) ==
    /\ jobID \in DOMAIN jobs
    /\ jobs' = [j \in DOMAIN jobs \ {jobID} |-> jobs[j]]
    /\ tasks' = tasks \ { f \in GlobJob(tasks, jobID) : f.area # "workers" }
    /\ UNCHANGED <<workers, nextJob, nextWorker, wpc, cand, pending, deleting, rw>>

deleteJob(jobID) ==
    /\ jobID \in DOMAIN jobs
    /\ jobs' = [j \in DOMAIN jobs \ {jobID} |-> jobs[j]]
    /\ tasks' = tasks \ GlobJob(tasks, jobID)
    /\ UNCHANGED <<workers, nextJob, nextWorker, wpc, cand, pending, deleting, rw>>

\* deleteJob as the file system sees it: the job file is removed and the
\* task files are listed (glob.glob), then the listed files are removed one
\* after the other, in the order glob.glob gave, whichever that is; other
\* processes act in between.
DeleteJobBegin(jobID) ==
    /\ jobID \in DOMAIN jobs
    /\ ~ deleting.active
    /\ jobs' = [j \in DOMAIN jobs \ {jobID} |-> jobs[j]]
    /\ deleting' = [active |-> TRUE, jobID |-> jobID, files |-> GlobJob(tasks, jobID)]
    /\ UNCHANGED <<tasks, workers, nextJob, nextWorker, wpc, cand, pending, rw>>

DeleteJobRemove ==
    /\ deleting.active
    /\ \E filename \in deleting.files :
          /\ tasks' = recurseRemove(tasks, filename)
          /\ deleting' = [deleting EXCEPT !.files = deleting.files \ {filename}]
    /\ UNCHANGED <<jobs, workers, nextJob, nextWorker, wpc, cand, pending, rw>>

DeleteJobReturn ==
    /\ deleting.active
    /\ deleting.files = {}
    /\ deleting' = NoDeleting
    /\ UNCHANGED <<jobs, tasks, workers, nextJob, nextWorker, wpc, cand, pending, rw>>

\* (a changed copy of requeueJob: only the files in the workers' folders are
\* moved)
requeueJobFromWorkers(jobID) ==
    /\ jobID \in DOMAIN jobs
    /\ \E files \in Orderings({ f \in GlobJob(tasks, jobID) : f.area = "workers" }) :
          tasks' = MoveEach(tasks, files, db_queued)
    /\ UNCHANGED <<jobs, workers, nextJob, nextWorker, wpc, cand, pending, deleting, rw>>

requeueJob(jobID) ==
    /\ jobID \in DOMAIN jobs
    /\ \E files \in Orderings(GlobJob(tasks, jobID)) :
          tasks' = MoveEach(tasks, files, db_queued)
    /\ UNCHANGED <<jobs, workers, nextJob, nextWorker, wpc, cand, pending, deleting, rw>>

\* getPriority: the 'priority' the job file holds.
getPriority(J, jobID) == J[jobID].priority

\* (a changed copy of setPriorityWrite: the file is written anew with the
\* identifier and the priority only)
setPriorityWriteBare(J, jobID, priority) ==
    IF 0 <= priority /\ priority <= 100 /\ J[jobID].priority # priority
    THEN [jobs |-> [J EXCEPT ![jobID] = [jobID |-> jobID, priority |-> priority,
                                          tasks |-> <<>>]],
          writes |-> 1]
    ELSE [jobs |-> J, writes |-> 0]

\* (a changed copy of setPriorityWrite: the file is written whenever the
\* priority is in range)
setPriorityWriteAlways(J, jobID, priority) ==
    IF 0 <= priority /\ priority <= 100
    THEN [jobs |-> [J EXCEPT ![jobID].priority = priority], writes |-> 1]
    ELSE [jobs |-> J, writes |-> 0]

\* The job files setPriority leaves, and how often it wrote the job file:
\* only write file if priority has changed.
setPriorityWrite(J, jobID, priority) ==
    IF 0 <= priority /\ priority <= 100 /\ J[jobID].priority # priority
    THEN [jobs |-> [J EXCEPT ![jobID].priority = priority], writes |-> 1]
    ELSE [jobs |-> J, writes |-> 0]

\* What setPriority returns: it has no return statement and raises nothing,
\* whether the priority is in range or not.
setPriorityReturn(J, jobID, priority) == None

setPriority(jobID, priority) ==
    /\ jobID \in DOMAIN jobs
    /\ jobs' = setPriorityWrite(jobs, jobID, priority).jobs
    /\ UNCHANGED <<tasks, workers, nextJob, nextWorker, wpc, cand, pending, deleting, rw>>

\* ------------------------------------------------------------ task calls
\* (a changed copy of dequeueTask: the file is copied to the worker's folder
\* and the copy in tasks/queued is left behind)
dequeueTaskCopy(jobID, taskID, workerID) ==
    tasks \cup { File(WorkerDir(workerID), f.jobID, f.taskNo, f.frames) :
                    f \in { g \in tasks : Dir(g) = db_queued /\ g.jobID = jobID
                                                              /\ g.taskNo = taskID } }

dequeueTask(jobID, taskID, workerID) ==
    LET filename == { f \in tasks : Dir(f) = db_queued /\ f.jobID = jobID /\ f.taskNo = taskID }
    IN  IF filename = {} THEN tasks
        ELSE move(tasks, CHOOSE f \in filename : TRUE, WorkerDir(workerID))

\* (a changed copy of completeTask: the task data is written anew in
\* tasks/completed, without its frames)
completeTaskRewritten(jobID, taskID, files) ==
    { IF f \in SeqToSet(files) THEN File(db_completed, f.jobID, f.taskNo, <<>>) ELSE f :
        f \in tasks }

completeTask(jobID, taskID, files) == MoveEach(tasks, files, db_completed)

\* (a changed copy of failTask: only a file in a worker's folder is moved)
failTaskFromWorkers(jobID, taskID, files) ==
    MoveEach(tasks, SelectSeq(files, LAMBDA f : f.area = "workers"), db_failed)

failTask(jobID, taskID, files) == MoveEach(tasks, files, db_failed)

\* (a changed copy of requeueTask: only a file in a worker's folder is moved)
requeueTaskFromWorkers(jobID, taskID, files) ==
    MoveEach(tasks, SelectSeq(files, LAMBDA f : f.area = "workers"), db_queued)

requeueTask(jobID, taskID, files) == MoveEach(tasks, files, db_queued)

\* ---------------------------------------------------------- combineTasks
\* (a changed copy of QueuedFile: the file is sought in every folder, not only
\* in tasks/queued)
QueuedFileAnyFolder(T, jobID, taskID) ==
    { f \in T : f.jobID = jobID /\ f.taskNo = taskID }

QueuedFile(T, jobID, taskID) ==
    { f \in T : Dir(f) = db_queued /\ f.jobID = jobID /\ f.taskNo = taskID }

\* The loop over taskIDs: open() raises when a listed file is not in
\* tasks/queued.
CombineUnreadable(T, jobID, taskIDs) ==
    \E i \in 1..Len(taskIDs) : QueuedFile(T, jobID, taskIDs[i]) = {}

ReadTask(T, jobID, taskID) == TaskData(CHOOSE f \in QueuedFile(T, jobID, taskID) : TRUE)

\* frames += sequence.numList(taskdata['frames'])
RECURSIVE CombineFrames(_, _, _)
CombineFrames(T, jobID, taskIDs) ==
    IF taskIDs = <<>> THEN <<>>
    ELSE numList(ReadTask(T, jobID, Head(taskIDs)).frames)
             \o CombineFrames(T, jobID, Tail(taskIDs))

\* (a changed copy of CombineToDelete: no file is marked for deletion)
CombineToDeleteNone(T, jobID, taskIDs) == {}

\* tasks_to_delete: the files of the listed tasks other than the first.
CombineToDelete(T, jobID, taskIDs) ==
    UNION { QueuedFile(T, jobID, taskIDs[i]) :
              i \in { k \in 1..Len(taskIDs) : taskIDs[k] # taskIDs[1] } }

\* (a changed copy of RangeParts: the first and the last frame, whatever lies
\* between them)
RangePartsSpan(frames) ==
    <<Single(Min(SeqToSet(frames))), Single(Max(SeqToSet(frames)))>>

\* The sanity check: numRange(frames).split("-") is two integers, start < end.
RangeParts(frames) == split(numRange(frames), DASH)
RangeOk(frames) ==
    LET parts == RangeParts(frames)
    IN  /\ Len(parts) = 2
        /\ IsInt(parts[1])
        /\ IsInt(parts[2])
        /\ parts[1][1] < parts[2][1]
\* (a changed copy of NewFrameRange: the last frame is left out of the range)
NewFrameRangeOpen(frames) ==
    IF RangeParts(frames)[2][1] - 1 > RangeParts(frames)[1][1]
    THEN FrameRange(RangeParts(frames)[1][1], RangeParts(frames)[2][1] - 1)
    ELSE Single(RangeParts(frames)[1][1])

NewFrameRange(frames) == FrameRange(RangeParts(frames)[1][1], RangeParts(frames)[2][1])

\* Delete redundant tasks, write new task.
CombineCommit(T, toDelete, newtaskdata, newframerange) ==
    writeFile(T \ toDelete, db_queued, [newtaskdata EXCEPT !.frames = newframerange])

\* (a changed copy of combineResult: the length of taskIDs is not checked)
combineResultAnyLength(T, jobID, taskIDs) ==
    IF CombineUnreadable(T, jobID, taskIDs) THEN Raised
    ELSE IF ~ RangeOk(CombineFrames(T, jobID, taskIDs)) THEN None
    ELSE Ret("id", NoTask, taskIDs[1])

\* What combineTasks returns.
combineResult(T, jobID, taskIDs) ==
    IF Len(taskIDs) < 2 THEN None
    ELSE IF CombineUnreadable(T, jobID, taskIDs) THEN Raised
    ELSE IF ~ RangeOk(CombineFrames(T, jobID, taskIDs)) THEN None
    ELSE Ret("id", NoTask, taskIDs[1])

\* The task files combineTasks leaves.
combineTasks(T, jobID, taskIDs) ==
    IF combineResult(T, jobID, taskIDs).kind # "id" THEN T
    ELSE CombineCommit(T, CombineToDelete(T, jobID, taskIDs),
                       ReadTask(T, jobID, taskIDs[1]),
                       NewFrameRange(CombineFrames(T, jobID, taskIDs)))

CombineTasks(jobID, taskIDs) ==
    /\ jobID \in DOMAIN jobs
    /\ ~ pending.active
    /\ tasks' = combineTasks(tasks, jobID, taskIDs)
    /\ UNCHANGED <<jobs, workers, nextJob, nextWorker, wpc, cand, pending, deleting, rw>>

\* combineTasks as the file system sees it: the listed files are read, and
\* deleted and rewritten later; other processes act in between.
CombineRead(jobID, taskIDs) ==
    /\ jobID \in DOMAIN jobs
    /\ ~ pending.active
    /\ combineResult(tasks, jobID, taskIDs).kind = "id"
    /\ pending' = [active |-> TRUE, jobID |-> jobID, taskIDs |-> taskIDs,
                   newtaskdata |-> ReadTask(tasks, jobID, taskIDs[1]),
                   newframerange |-> NewFrameRange(CombineFrames(tasks, jobID, taskIDs)),
                   tasks_to_delete |-> CombineToDelete(tasks, jobID, taskIDs)]
    /\ UNCHANGED <<jobs, tasks, workers, nextJob, nextWorker, wpc, cand, deleting, rw>>

CombineWrite ==
    /\ pending.active
    /\ tasks' = CombineCommit(tasks, pending.tasks_to_delete, pending.newtaskdata,
                              pending.newframerange)
    /\ pending' = NoPending
    /\ UNCHANGED <<jobs, workers, nextJob, nextWorker, wpc, cand, deleting, rw>>

\* ---------------------------------------------------------- worker calls
newWorker(status) ==
    /\ nextWorker < MaxWorkers
    /\ LET workerID == nextWorker + 1
       IN  /\ nextWorker' = workerID
           /\ workers' = workers @@ (workerID :> [id |-> workerID, status |-> status])
    /\ UNCHANGED <<jobs, tasks, nextJob, wpc, cand, pending, deleting, rw>>

\* (a changed copy of deleteWorker: the task files of the folder are put back
\* into tasks/queued)
deleteWorkerRequeued(workerID) ==
    /\ workerID \in DOMAIN workers
    /\ workers' = [w \in DOMAIN workers \ {workerID} |-> workers[w]]
    /\ tasks' = { IF Dir(f) = WorkerDir(workerID)
                  THEN File(db_queued, f.jobID, f.taskNo, f.frames) ELSE f : f \in tasks }
    /\ wpc' = [wpc EXCEPT ![workerID] = "idle"]
    /\ cand' = [cand EXCEPT ![workerID] = NoTask]
    /\ UNCHANGED <<jobs, nextJob, nextWorker, pending, deleting, rw>>

\* The worker's folder goes with everything in it; its process has ended.
deleteWorker(workerID) ==
    /\ workerID \in DOMAIN workers
    /\ workers' = [w \in DOMAIN workers \ {workerID} |-> workers[w]]
    /\ tasks' = { f \in tasks : Dir(f) # WorkerDir(workerID) }
    /\ wpc' = [wpc EXCEPT ![workerID] = "idle"]
    /\ cand' = [cand EXCEPT ![workerID] = NoTask]
    /\ UNCHANGED <<jobs, nextJob, nextWorker, pending, deleting, rw>>

\* getWorkerStatus: the 'status' the worker's file holds.
getWorkerStatus(W, workerID) == W[workerID].status

\* (a changed copy of setWorkerStatusWrite: the file is written on every call)
setWorkerStatusWriteAlways(W, workerID, status) ==
    [workers |-> [W EXCEPT ![workerID].status = status], writes |-> 1]

\* The worker files setWorkerStatus leaves, and how often it wrote the file.
setWorkerStatusWrite(W, workerID, status) ==
    IF W[workerID].status # status
    THEN [workers |-> [W EXCEPT ![workerID].status = status], writes |-> 1]
    ELSE [workers |-> W, writes |-> 0]

setWorkerStatus(workerID, status) ==
    /\ workerID \in DOMAIN workers
    /\ workers[workerID] \notin CorruptFiles
    /\ workers' = setWorkerStatusWrite(workers, workerID, status).workers
    /\ UNCHANGED <<jobs, tasks, nextJob, nextWorker, wpc, cand, pending, deleting, rw>>

\* getWorkers: the worker files in the order glob.glob lists them; a file
\* that is not JSON is reported and passed over (except
\* json.decoder.JSONDecodeError), a file that is not text makes json.load
\* raise UnicodeDecodeError, which nothing catches.
getWorkers(listing) ==
    IF \E i \in 1..Len(listing) : workers[listing[i]] = UndecodableFile
    THEN [kind |-> "raise", workers |-> <<>>]
    ELSE [kind |-> "workers",
          workers |-> LET parsed == SelectSeq(listing, LAMBDA w : workers[w] # UnparseableFile)
                      IN  [i \in 1..Len(parsed) |-> workers[parsed[i]]]]

\* A job file or a worker's file is damaged in the store: cut off or emptied
\* (another process has opened it with 'w' and not yet written it), or
\* overwritten with bytes that are not text.
CorruptJob(jobID, content) ==
    /\ jobID \in DOMAIN jobs
    /\ jobs[jobID] \notin CorruptFiles
    /\ jobs' = [jobs EXCEPT ![jobID] = content]
    /\ UNCHANGED <<tasks, workers, nextJob, nextWorker, wpc, cand, pending, deleting, rw>>

CorruptWorker(workerID, content) ==
    /\ workerID \in DOMAIN workers
    /\ workers[workerID] \notin CorruptFiles
    /\ workers' = [workers EXCEPT ![workerID] = content]
    /\ UNCHANGED <<jobs, tasks, nextJob, nextWorker, wpc, cand, pending, deleting, rw>>

\* ----------------------------------------------------------- task calls
\* dequeue: dequeueJob selects a task and dequeueTask moves it to the
\* worker's folder, as one step.
Dequeue(w) ==
    /\ w \in DOMAIN workers
    /\ \E listing \in Orderings(DOMAIN jobs) :
          LET r == dequeueJob(listing)
          IN  /\ tasks' = IF r.kind = "None" THEN tasks
                          ELSE dequeueTask(r.task.jobID, r.task.taskNo, w)
    /\ UNCHANGED <<jobs, workers, nextJob, nextWorker, wpc, cand, pending, deleting, rw>>

DoCompleteTask(jobID, taskID) ==
    /\ \E files \in Orderings(GlobTask(tasks, jobID, taskID)) :
          tasks' = completeTask(jobID, taskID, files)
    /\ UNCHANGED <<jobs, workers, nextJob, nextWorker, pending, deleting, rw>>

DoFailTask(jobID, taskID) ==
    /\ \E files \in Orderings(GlobTask(tasks, jobID, taskID)) :
          tasks' = failTask(jobID, taskID, files)
    /\ UNCHANGED <<jobs, workers, nextJob, nextWorker, pending, deleting, rw>>

DoRequeueTask(jobID, taskID) ==
    /\ \E files \in Orderings(GlobTask(tasks, jobID, taskID)) :
          tasks' = requeueTask(jobID, taskID, files)
    /\ UNCHANGED <<jobs, workers, nextJob, nextWorker, pending, deleting, rw>>

CompleteTask(jobID, taskID) ==
    jobID \in DOMAIN jobs /\ DoCompleteTask(jobID, taskID) /\ UNCHANGED <<wpc, cand>>
FailTask(jobID, taskID) ==
    jobID \in DOMAIN jobs /\ DoFailTask(jobID, taskID) /\ UNCHANGED <<wpc, cand>>
RequeueTask(jobID, taskID) ==
    jobID \in DOMAIN jobs /\ DoRequeueTask(jobID, taskID) /\ UNCHANGED <<wpc, cand>>

\* ------------------------------------------------- the worker processes
\* dequeue, call by call: the worker asks dequeueJob for a task ...
DequeueJob(w) ==
    /\ w \in DOMAIN workers
    /\ wpc[w] = "idle"
    /\ \E listing \in Orderings(DOMAIN jobs) :
          LET r == dequeueJob(listing)
          IN  /\ cand' = [cand EXCEPT ![w] = r.task]
              /\ wpc' = [wpc EXCEPT ![w] = IF r.kind = "None" THEN "idle" ELSE "selected"]
    /\ UNCHANGED <<jobs, tasks, workers, nextJob, nextWorker, pending, deleting, rw>>

\* ... moves it into its folder with dequeueTask, which returns nothing, and
\* starts rendering it.
DequeueTask(w) ==
    /\ w \in DOMAIN workers
    /\ wpc[w] = "selected"
    /\ tasks' = dequeueTask(cand[w].jobID, cand[w].taskNo, w)
    /\ wpc' = [wpc EXCEPT ![w] = "rendering"]
    /\ UNCHANGED <<jobs, workers, nextJob, nextWorker, cand, pending, deleting, rw>>

\* The render ends and the worker reports the task done or failed.
RenderDone(w) ==
    /\ w \in DOMAIN workers
    /\ wpc[w] = "rendering"
    /\ DoCompleteTask(cand[w].jobID, cand[w].taskNo)
    /\ wpc' = [wpc EXCEPT ![w] = "idle"]
    /\ cand' = [cand EXCEPT ![w] = NoTask]

RenderFailed(w) ==
    /\ w \in DOMAIN workers
    /\ wpc[w] = "rendering"
    /\ DoFailTask(cand[w].jobID, cand[w].taskNo)
    /\ wpc' = [wpc EXCEPT ![w] = "idle"]
    /\ cand' = [cand EXCEPT ![w] = NoTask]

\* ------------------------------------------------------ the WorkerThread
\* The job types the worker knows.
JobTypes == {"Generic", "Maya", "Nuke"}

\* WorkerThread._render_task: the signals one run emits, and how it ends.
\* 'result' is assigned only for a job of type "Generic" (from
\* oswrapper.execute); for any other type 'if result:' raises
\* UnboundLocalError before a signal is emitted.
render_task(jobType, task, result) ==
    IF jobType = "Generic"
    THEN [kind |-> "return",
          signals |-> <<[signal |-> IF result THEN "taskCompleted" ELSE "taskFailed",
                         jobID |-> task.jobID, taskNo |-> task.taskNo]>>]
    ELSE [kind |-> "raise", signals |-> <<>>]

\* ------------------------------------------------------ the RenderWorker
\* RenderWorker.setWorkerStatus: the local status; "disabled" checks
\* 'Continue After Current Task Completion' again.
RenderWorker_setWorkerStatus(r, status) ==
    [r EXCEPT !.workerStatus = status,
              !.stopAfterTask = IF status = "disabled" THEN FALSE ELSE @]

\* toggleWorker is triggered by 'Start Worker' and 'Stop Worker', and
\* setWorkerStatus("rendering") hides both.
toggleWorker(w) ==
    /\ w \in DOMAIN workers
    /\ rw[w].workerStatus # "rendering"
    /\ ~ rw[w].redequeue
    /\ rw' = [rw EXCEPT ![w] =
                 RenderWorker_setWorkerStatus(@, IF @.workerStatus = "disabled"
                                                 THEN "idle" ELSE "disabled")]
    /\ UNCHANGED <<jobs, tasks, workers, nextJob, nextWorker, wpc, cand, pending, deleting>>

\* (a changed copy of CanDequeue: only a disabled worker is turned away)
CanDequeueUnlessDisabled(r) == r.workerStatus # "disabled"

\* if self.workerStatus != "idle": return False
CanDequeue(r) == r.workerStatus = "idle"

\* dequeue, called by the timer or by renderComplete: the worker takes the
\* task dequeueJob selects, starts the render process and is rendering.
dequeue(w) ==
    /\ w \in DOMAIN workers
    /\ CanDequeue(rw[w])
    /\ \E listing \in Orderings(DOMAIN jobs) :
          LET r == dequeueJob(listing)
              reset == [rw[w] EXCEPT !.renderTaskInterrupted = FALSE,
                                     !.renderTaskErrors = 0,
                                     !.redequeue = FALSE]
          IN  IF r.kind = "None"
              THEN /\ tasks' = tasks
                   /\ rw' = [rw EXCEPT ![w] = reset]
              ELSE /\ tasks' = dequeueTask(r.task.jobID, r.task.taskNo, w)
                   /\ rw' = [rw EXCEPT ![w] =
                                [RenderWorker_setWorkerStatus(reset, "rendering")
                                    EXCEPT !.renderJobID = r.task.jobID,
                                           !.renderTaskID = r.task.taskNo,
                                           !.running = TRUE]]
    /\ UNCHANGED <<jobs, workers, nextJob, nextWorker, wpc, cand, pending, deleting>>

\* updateWorkerView, on output of the render process in which the parser
\* finds an error: self.renderTaskErrors += 1
updateWorkerView(w) ==
    /\ w \in DOMAIN workers
    /\ rw[w].running
    /\ rw[w].renderTaskErrors < MaxErrors
    /\ rw' = [rw EXCEPT ![w].renderTaskErrors = @ + 1]
    /\ UNCHANGED <<jobs, tasks, workers, nextJob, nextWorker, wpc, cand, pending, deleting>>

\* The user checks 'Continue After Current Task Completion' or 'Stop Worker
\* After Current Task Completion'; both are shown while the worker renders.
SetStopAfterTask(w, checked) ==
    /\ w \in DOMAIN workers
    /\ rw[w].workerStatus = "rendering"
    /\ rw' = [rw EXCEPT ![w].stopAfterTask = checked]
    /\ UNCHANGED <<jobs, tasks, workers, nextJob, nextWorker, wpc, cand, pending, deleting>>

\* killRenderProcess ('Stop Worker Immediately and Kill Current Task', or
\* closeEvent in any status): the render process, if there is one, is killed
\* and its finished signal is handled later.
killRenderProcess(w) ==
    /\ w \in DOMAIN workers
    /\ ~ rw[w].redequeue
    /\ rw' = [rw EXCEPT ![w].stopAfterTask = TRUE,
                        ![w].renderTaskInterrupted = TRUE]
    /\ UNCHANGED <<jobs, tasks, workers, nextJob, nextWorker, wpc, cand, pending, deleting>>

\* (a changed copy of renderCompleteCall: the errors are looked at first)
renderCompleteCallErrorsFirst(r) ==
    IF r.renderTaskErrors # 0 THEN "failTask"
    ELSE IF r.renderTaskInterrupted THEN "requeueTask"
    ELSE "completeTask"

\* The call renderComplete makes on the queue.
renderCompleteCall(r) ==
    IF r.renderTaskInterrupted THEN "requeueTask"
    ELSE IF r.renderTaskErrors # 0 THEN "failTask"
    ELSE "completeTask"

\* renderComplete, on the finished signal of the render process: the task is
\* requeued, failed or completed; the worker is disabled, or is idle and
\* goes on to dequeue.
renderComplete(w) ==
    /\ w \in DOMAIN workers
    /\ rw[w].running
    /\ LET r == rw[w]
           call == renderCompleteCall(r)
       IN  /\ \E files \in Orderings(GlobTask(tasks, r.renderJobID, r.renderTaskID)) :
                 tasks' = IF call = "requeueTask"
                          THEN requeueTask(r.renderJobID, r.renderTaskID, files)
                          ELSE IF call = "failTask"
                          THEN failTask(r.renderJobID, r.renderTaskID, files)
                          ELSE completeTask(r.renderJobID, r.renderTaskID, files)
           /\ rw' = [rw EXCEPT ![w] =
                        IF r.stopAfterTask
                        THEN [RenderWorker_setWorkerStatus(r, "disabled")
                                 EXCEPT !.running = FALSE]
                        ELSE [RenderWorker_setWorkerStatus(r, "idle")
                                 EXCEPT !.running = FALSE, !.redequeue = TRUE]]
    /\ UNCHANGED <<jobs, workers, nextJob, nextWorker, wpc, cand, pending, deleting>>

\* ------------------------------------------------------- specifications
\* Every call of the interface is one step.
Next ==
    \/ \E p \in Priorities, fl \in FrameLists : newJob(p, fl)
    \/ \E j \in JobIDs : deleteJob(j)
    \/ \E j \in JobIDs : requeueJob(j)
    \/ \E j \in JobIDs, p \in PriorityArgs : setPriority(j, p)
    \/ \E s \in Statuses : newWorker(s)
    \/ \E w \in WorkerIDs : deleteWorker(w)
    \/ \E w \in WorkerIDs : Dequeue(w)
    \/ \E j \in JobIDs, t \in TaskNos : CompleteTask(j, t)
    \/ \E j \in JobIDs, t \in TaskNos : FailTask(j, t)
    \/ \E j \in JobIDs, t \in TaskNos : RequeueTask(j, t)
    \/ \E j \in JobIDs, ids \in TaskIDLists : CombineTasks(j, ids)

Spec == Init /\ [][Next]_vars

\* The worker processes run their dequeue sequences side by side.
NextDequeue ==
    \/ \E p \in Priorities, fl \in FrameLists : newJob(p, fl)
    \/ \E s \in Statuses : newWorker(s)
    \/ \E w \in WorkerIDs : DequeueJob(w)
    \/ \E w \in WorkerIDs : DequeueTask(w)
    \/ \E w \in WorkerIDs : RenderDone(w)
    \/ \E w \in WorkerIDs : RenderFailed(w)

SpecDequeue == Init /\ [][NextDequeue]_vars

\* combineTasks takes two steps, and the worker processes act between them.
NextConc ==
    \/ NextDequeue
    \/ \E j \in JobIDs, ids \in TaskIDLists : CombineRead(j, ids)
    \/ CombineWrite

SpecConc == Init /\ [][NextConc]_vars

\* The calls on the worker records, with the statuses the workers set.
NextWorkers ==
    \/ \E p \in Priorities, fl \in FrameLists : newJob(p, fl)
    \/ \E s \in StatusArgs : newWorker(s)
    \/ \E w \in WorkerIDs, s \in StatusArgs : setWorkerStatus(w, s)
    \/ \E w \in WorkerIDs : deleteWorker(w)
    \/ \E w \in WorkerIDs : Dequeue(w)

SpecWorkers == Init /\ [][NextWorkers]_vars

\* The listings on a store in which files get damaged.
NextCorrupt ==
    \/ \E p \in Priorities, fl \in FrameLists : newJob(p, fl)
    \/ \E s \in Statuses : newWorker(s)
    \/ \E j \in JobIDs, c \in CorruptFiles : CorruptJob(j, c)
    \/ \E w \in WorkerIDs, c \in CorruptFiles : CorruptWorker(w, c)

SpecCorrupt == Init /\ [][NextCorrupt]_vars

\* deleteJob takes its steps while the worker processes run.
NextDelete ==
    \/ \E p \in Priorities, fl \in FrameLists : newJob(p, fl)
    \/ \E s \in Statuses : newWorker(s)
    \/ \E w \in WorkerIDs : DequeueJob(w)
    \/ \E w \in WorkerIDs : DequeueTask(w)
    \/ \E w \in WorkerIDs : RenderDone(w)
    \/ \E j \in JobIDs : DeleteJobBegin(j)
    \/ DeleteJobRemove
    \/ DeleteJobReturn

SpecDelete == Init /\ [][NextDelete]_vars

\* The RenderWorkers of the hosts: their handlers, and an operator who
\* requeues tasks.
NextRender ==
    \/ \E p \in Priorities, fl \in { l \in FrameLists : Len(l) <= MaxRenderTasks } :
          newJob(p, fl)
    \/ \E s \in Statuses : newWorker(s)
    \/ \E w \in WorkerIDs : toggleWorker(w)
    \/ \E w \in WorkerIDs : dequeue(w)
    \/ \E w \in WorkerIDs : updateWorkerView(w)
    \/ \E w \in WorkerIDs, checked \in BOOLEAN : SetStopAfterTask(w, checked)
    \/ \E w \in WorkerIDs : killRenderProcess(w)
    \/ \E w \in WorkerIDs : renderComplete(w)
    \/ \E j \in JobIDs, t \in TaskNos : RequeueTask(j, t)

SpecRender == Init /\ [][NextRender]_vars

\* The worker processes with a scheduler that keeps the first worker going:
\* its timer calls dequeue again and again, and the render it starts ends.
Polling(w) ==
    /\ WF_vars(DequeueJob(w))
    /\ WF_vars(DequeueTask(w))
    /\ WF_vars(RenderDone(w) \/ RenderFailed(w))

SpecDrain == Init /\ [][NextDequeue]_vars /\ Polling(1)

\* ================================================================ claims
Listings == Orderings(DOMAIN jobs)
QueuedNos(jobID) == { u.taskNo : u \in getQueuedTasks(jobID) }

\* C1 (SpecDequeue): when workers run the dequeue sequence side by side, a
\* task's file lies in the folder of at most one worker, and no two workers
\* are both rendering the same task.
C1_AtMostOneClaim ==
    /\ \A f, g \in tasks :
          f.area = "workers" /\ g.area = "workers" /\ f.jobID = g.jobID
              /\ f.taskNo = g.taskNo => f = g
    /\ \A w1, w2 \in DOMAIN workers :
          w1 # w2 /\ wpc[w1] = "rendering" /\ wpc[w2] = "rendering"
              => cand[w1] # cand[w2]

\* C2 (SpecConc): in every reachable state a task (jobID, taskNo) has a file
\* in at most one of tasks/queued, tasks/completed, tasks/failed and the
\* workers' folders.
C2_OneLocation ==
    \A f, g \in tasks : f.jobID = g.jobID /\ f.taskNo = g.taskNo => f = g

\* C3: claim, complete, fail and requeue each relocate a task's file in one
\* step: a task that has one file before the call has one file after it, with
\* the same task data, never none and never two.
Relocated(T, T2) ==
    \A f \in T :
        GlobTask(T, f.jobID, f.taskNo) = {f}
            => \E g \in T2 : /\ GlobTask(T2, f.jobID, f.taskNo) = {g}
                             /\ TaskData(g) = TaskData(f)
C5_LowestTaskNo ==
    \A listing \in Listings :
        LET r == dequeueJob(listing)
        IN  r.kind = "task"
                => /\ r.task \in getQueuedTasks(r.task.jobID)
                   /\ \A u \in getQueuedTasks(r.task.jobID) : r.task.taskNo <= u.taskNo
C5_Witness ==
    \E j \in DOMAIN jobs :
        /\ QueuedNos(j) = {0, 2}
        /\ \E f \in GlobTask(tasks, j, 1) : f.area # "queued"
        /\ \A listing \in Listings :
              dequeueJob(listing).task.jobID = j /\ dequeueJob(listing).task.taskNo = 0

NewTaskFiles(jobID, frameList) ==
    { File(db_queued, jobID, i - 1, frameList[i]) : i \in 1..Len(frameList) }
C7_NewJobTasks ==
    nextJob < MaxJobs =>
        \A frameList \in FrameLists :
            LET jobID == nextJob + 1
                T2 == newJobTasks(tasks, jobID, frameList)
                listed == getTasks(T2, jobID)
            IN  /\ GlobJob(T2, jobID) = NewTaskFiles(jobID, frameList)
                /\ Cardinality(GlobJob(T2, jobID)) = Len(frameList)
                /\ Cardinality(listed) = Len(frameList)
                /\ { r.taskNo : r \in listed } = 0..(Len(frameList) - 1)
                /\ \A r \in listed :
                      r.status = "Queued" /\ r.jobID = jobID
                          /\ r.frames = frameList[r.taskNo + 1]
C7_Witness ==
    \E j \in DOMAIN jobs :
        /\ Len(jobs[j].tasks) = 3
        /\ GlobJob(tasks, j) = NewTaskFiles(j, jobs[j].tasks)
        /\ Cardinality(getTasks(tasks, j)) = 3
        /\ \A r \in getTasks(tasks, j) : r.status = "Queued"

\* C8: newJob returns the identifier of the job it created, that identifier
\* is the identifier of no other job, and the job, task and worker records
\* there were are unchanged.
C8_NewJobReturnsFreshID ==
    [][\A p \in Priorities, frameList \in FrameLists :
          newJob(p, frameList)
              => /\ newJobReturn(nextJob') = Ret("id", NoTask, nextJob')
                 /\ nextJob' \notin DOMAIN jobs
                 /\ \A j \in DOMAIN jobs : jobs'[j] = jobs[j]
                 /\ tasks \subseteq tasks'
                 /\ \A f \in tasks' \ tasks : f.jobID = nextJob'
                 /\ workers' = workers]_vars

\* C9 (SpecDequeue): a worker whose task was claimed by another worker since
\* it scanned has lost the race: its dequeueTask leaves the files as they are
\* and the worker does not go on to render that task.
C9_LostRaceRetried ==
    [][\A w \in WorkerIDs :
          DequeueTask(w) /\ QueuedFile(tasks, cand[w].jobID, cand[w].taskNo) = {}
              => tasks' = tasks /\ wpc'[w] # "rendering"]_vars

\* C10: combineTasks on two or more queued tasks whose frames make one
\* contiguous range returns the first task listed, leaves it queued with the
\* frames 'min-max', removes the files of the other tasks listed and changes no
\* other file.
ListedFrames(jobID, taskIDs) ==
    UNION { SeqToSet(numList(ReadTask(tasks, jobID, taskIDs[i]).frames)) :
              i \in 1..Len(taskIDs) }
Contiguous(S) == S = Min(S)..Max(S)
Combined(jobID, taskIDs) ==
    LET T2 == combineTasks(tasks, jobID, taskIDs)
        S == ListedFrames(jobID, taskIDs)
    IN  /\ combineResult(tasks, jobID, taskIDs) = Ret("id", NoTask, taskIDs[1])
        /\ GlobTask(T2, jobID, taskIDs[1])
              = {File(db_queued, jobID, taskIDs[1], FrameRange(Min(S), Max(S)))}
        /\ \A i \in 2..Len(taskIDs) : GlobTask(T2, jobID, taskIDs[i]) = {}
        /\ \A f \in tasks \cup T2 :
              (f.jobID # jobID \/ f.taskNo \notin SeqToSet(taskIDs))
                  => f \in tasks /\ f \in T2
Combinable(jobID, taskIDs) ==
    /\ Len(taskIDs) >= 2
    /\ ~ CombineUnreadable(tasks, jobID, taskIDs)
    /\ Contiguous(ListedFrames(jobID, taskIDs))
\* as claimed
C10_CombineContiguous ==
    \A j \in DOMAIN jobs, ids \in TaskIDLists :
        Combinable(j, ids) => Combined(j, ids)
\* as amended: the range has at least two frames
C10_CombineRange ==
    \A j \in DOMAIN jobs, ids \in TaskIDLists :
        Combinable(j, ids) /\ Min(ListedFrames(j, ids)) < Max(ListedFrames(j, ids))
            => Combined(j, ids)
C10_Witness ==
    \E j \in DOMAIN jobs :
        /\ Len(jobs[j].tasks) = 3
        /\ File(db_queued, j, 0, FrameRange(1, 3)) \in tasks
        /\ GlobTask(tasks, j, 1) = {}
        /\ \E f \in GlobTask(tasks, j, 2) : f.frames = jobs[j].tasks[3]

\* C11: combineTasks on queued tasks whose frames leave a gap fails (it
\* returns None after reporting that the range must be contiguous) and changes
\* no file: every task listed is still in tasks/queued with the frames it had.
Gapped(jobID, taskIDs) ==
    /\ Len(taskIDs) >= 2
    /\ ~ CombineUnreadable(tasks, jobID, taskIDs)
    /\ ~ Contiguous(ListedFrames(jobID, taskIDs))
C11_GapNoMutation ==
    \A j \in DOMAIN jobs, ids \in TaskIDLists :
        Gapped(j, ids)
            => /\ combineResult(tasks, j, ids) = None
               /\ combineTasks(tasks, j, ids) = tasks
               /\ \A i \in 1..Len(ids) :
                     \E f \in tasks :
                         GlobTask(combineTasks(tasks, j, ids), j, ids[i]) = {f}
                             /\ Dir(f) = db_queued
C11_Witness ==
    \E j \in DOMAIN jobs :
        /\ File(db_queued, j, 0, FrameRange(1, 2)) \in tasks
        /\ File(db_queued, j, 1, Single(3)) \in tasks
        /\ File(db_queued, j, 2, FrameRange(6, 7)) \in tasks
        /\ Gapped(j, <<0, 2>>) /\ combineTasks(tasks, j, <<0, 2>>) = tasks
        /\ Gapped(j, <<2, 1>>) /\ combineResult(tasks, j, <<2, 1>>) = None
        /\ RangeParts(CombineFrames(tasks, j, <<1, 2>>)) = <<<<3, COMMA, 6>>, <<7>>>>

\* C12: combineTasks with fewer than two task identifiers fails (it returns
\* None after reporting that two tasks are needed) and changes no task file.
C12_FewerThanTwo ==
    \A j \in DOMAIN jobs, ids \in TaskIDLists :
        Len(ids) < 2
            => /\ combineResult(tasks, j, ids) = None
               /\ combineTasks(tasks, j, ids) = tasks
C12_Witness ==
    \E j \in DOMAIN jobs :
        /\ QueuedNos(j) = {0, 1}
        /\ combineResult(tasks, j, <<0>>) = None
        /\ combineResult(tasks, j, <<>>) = None
        /\ combineResult(tasks, j, <<0, 1>>).kind = "id"

\* C13: when a task listed is not in tasks/queued (it is in a worker's
\* folder, completed, failed, or there is no such task), combineTasks fails
\* and no file is deleted, moved or rewritten, wherever in the list the task
\* stands.
C13_AllQueuedOrNothing ==
    \A j \in DOMAIN jobs, ids \in TaskIDLists :
        (\E i \in 1..Len(ids) : ids[i] \notin QueuedNos(j))
            => /\ combineResult(tasks, j, ids).kind \in {"None", "raise"}
               /\ combineTasks(tasks, j, ids) = tasks
C13_Witness ==
    \E j \in DOMAIN jobs :
        /\ File(db_queued, j, 0, FrameRange(1, 2)) \in tasks
        /\ File(db_completed, j, 1, Single(3)) \in tasks
        /\ combineResult(tasks, j, <<0, 1>>) = Raised
        /\ combineResult(tasks, j, <<1, 0>>) = Raised
        /\ combineResult(tasks, j, <<0, 2>>) = Raised
        /\ combineTasks(tasks, j, <<0, 1>>) = tasks

\* C14: completeTask, failTask and requeueTask find the task's file in
\* whichever folder it lies and leave it in tasks/completed, tasks/failed and
\* tasks/queued; no other file changes; a file already in the target folder
\* stays as it is, and the same call made again changes nothing.
Settled(T2, jobID, taskID, dst) ==
    /\ \A g \in GlobTask(T2, jobID, taskID) : Dir(g) = dst
    /\ { TaskData(g) : g \in GlobTask(T2, jobID, taskID) }
          = { TaskData(f) : f \in GlobTask(tasks, jobID, taskID) }
    /\ T2 \ GlobTask(T2, jobID, taskID) = tasks \ GlobTask(tasks, jobID, taskID)
    /\ (\A f \in GlobTask(tasks, jobID, taskID) : Dir(f) = dst) => T2 = tasks
    /\ \A again \in Orderings(GlobTask(T2, jobID, taskID)) : MoveEach(T2, again, dst) = T2
C14_RelocateIdempotent ==
    \A j \in DOMAIN jobs, t \in TaskNos :
        \A files \in Orderings(GlobTask(tasks, j, t)) :
            /\ Settled(completeTask(j, t, files), j, t, db_completed)
            /\ Settled(failTask(j, t, files), j, t, db_failed)
            /\ Settled(requeueTask(j, t, files), j, t, db_queued)
C14_Witness ==
    \E f, g, h \in tasks :
        /\ f.area = "completed" /\ completeTask(f.jobID, f.taskNo, <<f>>) = tasks
        /\ failTask(f.jobID, f.taskNo, <<f>>) # tasks
        /\ g.area = "queued" /\ requeueTask(g.jobID, g.taskNo, <<g>>) = tasks
        /\ File(db_failed, g.jobID, g.taskNo, g.frames) \in failTask(g.jobID, g.taskNo, <<g>>)
        /\ h.area = "workers"
        /\ File(db_completed, h.jobID, h.taskNo, h.frames)
              \in completeTask(h.jobID, h.taskNo, <<h>>)

\* C15 (SpecDequeue): a task's file enters tasks/completed or tasks/failed
\* only from a worker's folder, and enters a worker's folder only from
\* tasks/queued.
C15_StateTable ==
    [][\A f \in tasks, g \in tasks' :
          f.jobID = g.jobID /\ f.taskNo = g.taskNo /\ Dir(f) # Dir(g)
              /\ f \notin tasks' /\ g \notin tasks
              => /\ g.area \in {"completed", "failed"} => f.area = "workers"
                 /\ g.area = "workers" => f.area = "queued"]_vars

\* C16: requeueTask puts a task that is in a worker's folder, completed or
\* failed into tasks/queued and moves no other file; a task in tasks/queued can
\* be claimed by dequeueTask.
C16_RequeueFromAnywhere ==
    /\ \A f \in tasks :
          GlobTask(tasks, f.jobID, f.taskNo) = {f} /\ f.area # "queued"
              => requeueTask(f.jobID, f.taskNo, <<f>>)
                   = (tasks \ {f}) \cup {File(db_queued, f.jobID, f.taskNo, f.frames)}
    /\ \A f \in tasks, w \in DOMAIN workers :
          GlobTask(tasks, f.jobID, f.taskNo) = {f} /\ f.area = "queued"
              => /\ TaskData(f) \in getQueuedTasks(f.jobID)
                 /\ dequeueTask(f.jobID, f.taskNo, w)
                      = (tasks \ {f}) \cup {File(WorkerDir(w), f.jobID, f.taskNo, f.frames)}
C16_Witness ==
    \E j \in DOMAIN jobs, w \in DOMAIN workers :
        /\ { f.area : f \in GlobJob(tasks, j) } = {"workers", "completed", "failed"}
        /\ \A f \in GlobJob(tasks, j) :
              /\ File(db_queued, j, f.taskNo, f.frames) \in requeueTask(j, f.taskNo, <<f>>)
              /\ f \notin requeueTask(j, f.taskNo, <<f>>)

\* C17: requeueJob moves every file of the job that is in a worker's folder,
\* completed or failed into tasks/queued with its task data, leaves the files
\* of other jobs where they are, and a second requeueJob changes nothing.
C17_RequeueJob ==
    [][\A j \in JobIDs :
          requeueJob(j)
              => /\ \A g \in GlobJob(tasks', j) : Dir(g) = db_queued
                 /\ { TaskData(g) : g \in GlobJob(tasks', j) }
                       = { TaskData(f) : f \in GlobJob(tasks, j) }
                 /\ tasks' \ GlobJob(tasks', j) = tasks \ GlobJob(tasks, j)
                 /\ \A again \in Orderings(GlobJob(tasks', j)) :
                       MoveEach(tasks', again, db_queued) = tasks']_vars
C17_Witness ==
    \E j1, j2 \in DOMAIN jobs :
        /\ j1 # j2
        /\ { f.area : f \in GlobJob(tasks, j1) } = {"workers", "completed"}
        /\ { f.area : f \in GlobJob(tasks, j2) } = {"failed"}
        /\ \A files \in Orderings(GlobJob(tasks, j1)) :
              /\ \A g \in GlobJob(MoveEach(tasks, files, db_queued), j1) : Dir(g) = db_queued
              /\ GlobJob(MoveEach(tasks, files, db_queued), j2) = GlobJob(tasks, j2)

\* C18: deleteJob removes the job file and every task file of the job, in
\* tasks/queued, tasks/completed, tasks/failed and the workers' folders;
\* getTasks then lists nothing for the job, getJobs does not list the job, and
\* the files of every other job are unchanged.
C18_DeleteJob ==
    [][\A j \in JobIDs :
          deleteJob(j)
              => /\ j \notin DOMAIN jobs'
                 /\ GlobJob(tasks', j) = {}
                 /\ getTasks(tasks', j) = {}
                 /\ \A listing \in Orderings(DOMAIN jobs') :
                       \A i \in 1..Len(listing) : getJobs(listing)'[i].jobID # j
                 /\ \A k \in DOMAIN jobs \ {j} :
                       k \in DOMAIN jobs' /\ jobs'[k] = jobs[k]
                           /\ GlobJob(tasks', k) = GlobJob(tasks, k)]_vars
C18_Witness ==
    \E d \in 1..nextJob, k \in DOMAIN jobs :
        /\ d \notin DOMAIN jobs
        /\ getTasks(tasks, d) = {}
        /\ { f.area : f \in GlobJob(tasks, k) } = {"workers", "completed", "queued"}

\* C19: what deleteJob returns for a job that has a task file in a worker's
\* folder differs from what it returns for a job that has none.
Rendering(jobID) == \E f \in GlobJob(tasks, jobID) : f.area = "workers"
C19_DeleteJobFlagsClaimed ==
    \A j1, j2 \in DOMAIN jobs :
        Rendering(j1) /\ ~ Rendering(j2)
            => deleteJobReturn(tasks, j1) # deleteJobReturn(tasks, j2)

\* C20: for every priority in range, setPriority with a value the job does
\* not have writes the job file once and getPriority then returns the value;
\* setPriority with the same value again writes nothing and changes nothing.
C20_SetPriorityIdempotent ==
    \A j \in DOMAIN jobs, p \in ValidPriorities :
        LET first == setPriorityWrite(jobs, j, p)
            second == setPriorityWrite(first.jobs, j, p)
        IN  /\ getPriority(first.jobs, j) = p
            /\ first.writes = IF getPriority(jobs, j) = p THEN 0 ELSE 1
            /\ first.jobs = [jobs EXCEPT ![j].priority = p]
            /\ second.writes = 0
            /\ second.jobs = first.jobs
C20_Witness ==
    \E j \in DOMAIN jobs :
        /\ getPriority(jobs, j) = 100
        /\ setPriorityWrite(jobs, j, 0).writes = 1
        /\ getPriority(setPriorityWrite(jobs, j, 0).jobs, j) = 0
        /\ setPriorityWrite(jobs, j, 100).writes = 0
        /\ \E k \in DOMAIN jobs : getPriority(jobs, k) = 0

\* C21: setPriority with a value below 0 or above 100 leaves the stored
\* priority unchanged and returns to the caller an outcome that differs from
\* the outcome of a call with a value in range; 0 and 100 are accepted.
C21_InvalidPriorityReported ==
    \A j \in DOMAIN jobs, p \in PriorityArgs :
        IF p \in ValidPriorities
        THEN getPriority(setPriorityWrite(jobs, j, p).jobs, j) = p
        ELSE /\ setPriorityWrite(jobs, j, p).jobs = jobs
             /\ \A q \in ValidPriorities :
                   setPriorityReturn(jobs, j, p) # setPriorityReturn(jobs, j, q)
\* the part of C21 that holds: the stored priority is unchanged, and the ends
\* of the range are accepted
C21_InvalidPriorityIgnored ==
    \A j \in DOMAIN jobs, p \in PriorityArgs :
        IF p \in ValidPriorities
        THEN getPriority(setPriorityWrite(jobs, j, p).jobs, j) = p
        ELSE setPriorityWrite(jobs, j, p) = [jobs |-> jobs, writes |-> 0]

\* C22: on every step that leaves a job in place, the fields of its job file
\* other than the priority (the identifier and the rest of the data passed at
\* creation, here the initial task list) keep their values; and a step that
\* changes a priority moves and rewrites no task file.
C22_OnlyPriorityMutable ==
    [][/\ \A j \in DOMAIN jobs \cap DOMAIN jobs' :
             jobs'[j].jobID = jobs[j].jobID /\ jobs'[j].tasks = jobs[j].tasks
       /\ (\E j \in DOMAIN jobs \cap DOMAIN jobs' :
               getPriority(jobs', j) # getPriority(jobs, j)) => tasks' = tasks
       /\ \A j \in JobIDs, p \in PriorityArgs : setPriority(j, p) => tasks' = tasks]_vars
C22_Witness ==
    \E j \in DOMAIN jobs :
        /\ jobs[j].jobID = j /\ jobs[j].tasks = Chunks(3)
        /\ getPriority(jobs, j) = 100
        /\ GlobJob(tasks, j) # NewTaskFiles(j, jobs[j].tasks)
        /\ setPriorityWrite(jobs, j, 0).jobs[j] = [jobID |-> j, priority |-> 0, tasks |-> Chunks(3)]

\* C23: a task file outside tasks/queued keeps its frames on every step, and
\* the steps of dequeue, completeTask, failTask, requeueTask and requeueJob
\* leave the task data (jobID, taskNo, frames) of every file as it was.
Relocation ==
    \/ \E w \in WorkerIDs : Dequeue(w)
    \/ \E j \in JobIDs, t \in TaskNos : CompleteTask(j, t) \/ FailTask(j, t) \/ RequeueTask(j, t)
    \/ \E j \in JobIDs : requeueJob(j)
C23_FramesEditedOnlyQueued ==
    [][/\ \A f \in tasks, g \in tasks' :
             f.area # "queued" /\ g.jobID = f.jobID /\ g.taskNo = f.taskNo
                 => g.frames = f.frames
       /\ Relocation
             => /\ { TaskData(g) : g \in tasks' } = { TaskData(f) : f \in tasks }
                /\ Cardinality(tasks') = Cardinality(tasks)]_vars
C23_Witness ==
    \E j \in DOMAIN jobs :
        /\ jobs[j].tasks = Chunks(3)
        /\ File(db_queued, j, 0, FrameRange(1, 3)) \in tasks
        /\ \E f \in GlobTask(tasks, j, 2) : f.area # "queued" /\ f.frames = FrameRange(6, 7)
        /\ combineTasks(tasks, j, <<0, 2>>) = tasks

\* C24 (SpecWorkers): deleteWorker removes the worker's file and folder with
\* every task file in it: those tasks then have no file in any folder,
\* getWorkers does not list the worker, and the other workers' files and the
\* other task files are unchanged.
C24_DeleteWorker ==
    [][\A w \in WorkerIDs :
          deleteWorker(w)
              => /\ w \notin DOMAIN workers'
                 /\ \A f \in tasks :
                       Dir(f) = WorkerDir(w) => GlobTask(tasks', f.jobID, f.taskNo) = {}
                 /\ tasks' = { f \in tasks : Dir(f) # WorkerDir(w) }
                 /\ \A listing \in Orderings(DOMAIN workers') :
                       \A r \in SeqToSet(getWorkers(listing)'.workers) : r.id # w
                 /\ \A v \in DOMAIN workers \ {w} :
                       v \in DOMAIN workers' /\ workers'[v] = workers[v]]_vars
C24_Witness ==
    \E w \in 1..nextWorker, v \in DOMAIN workers, j \in DOMAIN jobs :
        /\ w \notin DOMAIN workers
        /\ Len(jobs[j].tasks) = 2
        /\ GlobTask(tasks, j, 0) = {}
        /\ \E f \in GlobTask(tasks, j, 1) : Dir(f) = WorkerDir(v)
        /\ \A listing \in Orderings(DOMAIN workers) :
              getWorkers(listing).workers = <<workers[v]>>

\* C25 (SpecWorkers): setWorkerStatus writes the worker's file only when the
\* status changes; getWorkerStatus then returns the status set; a call with
\* the current status writes nothing; no other worker's file and no task file
\* changes.
C25_SetWorkerStatus ==
    /\ [](\A w \in DOMAIN workers, s \in StatusArgs :
            LET r == setWorkerStatusWrite(workers, w, s)
            IN  /\ getWorkerStatus(r.workers, w) = s
                /\ r.writes = IF getWorkerStatus(workers, w) = s THEN 0 ELSE 1
                /\ r.workers = [workers EXCEPT ![w].status = s]
                /\ setWorkerStatusWrite(r.workers, w, s)
                      = [workers |-> r.workers, writes |-> 0])
    /\ [][(\E w \in WorkerIDs, s \in StatusArgs : setWorkerStatus(w, s))
             => tasks' = tasks /\ jobs' = jobs]_vars
C25_Witness ==
    \E w, v \in DOMAIN workers :
        /\ getWorkerStatus(workers, w) = "rendering"
        /\ getWorkerStatus(workers, v) = "idle"
        /\ \E f \in tasks : Dir(f) = WorkerDir(w)
        /\ setWorkerStatusWrite(workers, w, "rendering").writes = 0
        /\ setWorkerStatusWrite(workers, w, "idle").writes = 1

\* C26: a task file in a worker's folder stays there on every step other than
\* requeueTask, completeTask or failTask on the task, requeueJob or deleteJob
\* on its job, or deleteWorker on the worker; a dequeue by any worker leaves it
\* where it is, and dequeueJob never returns the task.
Released(f) ==
    \/ RequeueTask(f.jobID, f.taskNo) \/ CompleteTask(f.jobID, f.taskNo)
    \/ FailTask(f.jobID, f.taskNo)
    \/ requeueJob(f.jobID) \/ deleteJob(f.jobID) \/ deleteWorker(f.worker)
C26_NoTimeouts ==
    /\ [](\A f \in tasks :
            f.area = "workers"
                => \A listing \in Listings : dequeueJob(listing).task # TaskData(f))
    /\ [][\A f \in tasks :
            f.area = "workers"
                => /\ f \in tasks' \/ Released(f)
                   /\ (\E w \in WorkerIDs : Dequeue(w)) => f \in tasks']_vars
C26_Witness ==
    \E f, g \in tasks, w, v \in DOMAIN workers :
        /\ w # v /\ Dir(f) = WorkerDir(w) /\ Dir(g) = db_queued
        /\ getPriority(jobs, f.jobID) > getPriority(jobs, g.jobID)
        /\ \A listing \in Listings : dequeueJob(listing).task = TaskData(g)
        /\ f \in dequeueTask(g.jobID, g.taskNo, v)

\* C27 (SpecCorrupt): a job file that cannot be loaded does not make getJobs
\* or dequeueJob fail: getJobs returns the jobs that can be read, and the queued
\* tasks of those jobs are still handed out.
C27_CorruptJobSkipped ==
    \A listing \in Listings :
        /\ getJobsOutcome(listing).kind = "jobs"
        /\ dequeueJobOutcome(listing).kind # "raise"
        /\ (\E j \in DOMAIN jobs : jobs[j] \notin CorruptFiles /\ getQueuedTasks(j) # {})
              => dequeueJobOutcome(listing).kind = "task"

\* C28 (SpecCorrupt): a worker's file that cannot be loaded does not make
\* getWorkers fail: it returns exactly the worker records that can be read.
C28_CorruptWorkerSkipped ==
    \A listing \in Orderings(DOMAIN workers) :
        /\ getWorkers(listing).kind = "workers"
        /\ SeqToSet(getWorkers(listing).workers)
              = { workers[w] : w \in { v \in DOMAIN workers : workers[v] \notin CorruptFiles } }
\* the part of C28 that holds: files that are text but not JSON are passed over
C28_UnparseableWorkerSkipped ==
    \A listing \in Orderings(DOMAIN workers) :
        (\A w \in DOMAIN workers : workers[w] # UndecodableFile)
            => /\ getWorkers(listing).kind = "workers"
               /\ SeqToSet(getWorkers(listing).workers)
                     = { workers[w] : w \in { v \in DOMAIN workers : workers[v] \notin CorruptFiles } }

\* C29: getTasks returns one record for every task file of the job and none
\* of another job, each with the task data of its file and the status the
\* folder gives: Queued in tasks/queued, Working in a worker's folder, Done in
\* tasks/completed, Failed in tasks/failed.
C29_GetTasksLabels ==
    \A j \in DOMAIN jobs :
        LET listed == getTasks(tasks, j)
        IN  /\ Cardinality(listed) = Cardinality(GlobJob(tasks, j))
            /\ { r.taskNo : r \in listed } = { f.taskNo : f \in GlobJob(tasks, j) }
            /\ \A r \in listed :
                  /\ r.jobID = j
                  /\ \E f \in GlobTask(tasks, j, r.taskNo) :
                        /\ r.frames = f.frames
                        /\ f.area = "queued" => r.status = "Queued"
                        /\ f.area = "workers" => r.status = "Working"
                        /\ f.area = "completed" => r.status = "Done"
                        /\ f.area = "failed" => r.status = "Failed"
C29_Witness ==
    \E j, k \in DOMAIN jobs :
        /\ j # k
        /\ { r.status : r \in getTasks(tasks, j) } = {"Working", "Failed"}
        /\ \E f \in tasks :
              getTasks(tasks, k) = {[jobID |-> k, taskNo |-> f.taskNo, frames |-> f.frames,
                                     status |-> "Done"]}

\* C30 (SpecConc): when a worker claims a listed task between combineTasks
\* reading the task files and deleting and rewriting them, then after the
\* rewrite no task has files in two folders, every file that was in a
\* worker's folder is still there, and no frame of a listed task in a worker's
\* folder is also in a queued task of the job.
FramesOf(f) == SeqToSet(numList(f.frames))
C30_CombineSafeAgainstClaim ==
    [][CombineWrite
          => /\ \A f, g \in tasks' : f.jobID = g.jobID /\ f.taskNo = g.taskNo => f = g
             /\ \A f \in tasks : f.area = "workers" => f \in tasks'
             /\ \A f, g \in tasks' :
                   /\ f.area = "workers" /\ f.jobID = pending.jobID
                   /\ f.taskNo \in SeqToSet(pending.taskIDs)
                   /\ Dir(g) = db_queued /\ g.jobID = f.jobID
                   => FramesOf(f) \cap FramesOf(g) = {}]_vars


\* C31 (SpecDelete): in every reachable state, also while deleteJob runs next
\* to the worker processes, every task file belongs to a job whose job file
\* exists.
C31_NoOrphans == \A f \in tasks : f.jobID \in DOMAIN jobs

\* C31 (SpecDelete): once deleteJob has returned, no task file of the job
\* exists: a task file without its job file belongs to the job a deleteJob is
\* still removing.
C31_NoneAfterDelete ==
    \A f \in tasks :
        f.jobID \in DOMAIN jobs \/ (deleting.active /\ deleting.jobID = f.jobID)


\* C32 (SpecRender): when a worker reports its render done or failed
\* (completeTask or failTask with that worker), no task file leaves the folder
\* of another worker: a late report on a task that was requeued and claimed
\* again does not move the task out of the second worker's folder.
C32_OnlyHolderFinishes ==
    [][\A w \in DOMAIN workers :
          rw[w].running /\ ~ rw'[w].running /\ ~ rw[w].renderTaskInterrupted
              => \A f \in tasks :
                    f.area = "workers" /\ f.worker # w => f \in tasks']_vars


\* C33: the frames of a job, over all its task files, are the frames it was
\* submitted with as long as no worker was deleted, and never more; and from
\* every reachable state a claim, completeTask, failTask, requeueTask,
\* requeueJob, setPriority or combineTasks (whether it combines or refuses)
\* leaves them as they are.
JobFrames(T, jobID) == UNION { SeqToSet(numList(f.frames)) : f \in GlobJob(T, jobID) }
SubmittedFrames(jobID) ==
    UNION { SeqToSet(numList(jobs[jobID].tasks[i])) : i \in 1..Len(jobs[jobID].tasks) }
C33_FrameConservation ==
    \A j \in DOMAIN jobs :
        /\ JobFrames(tasks, j) \subseteq SubmittedFrames(j)
        /\ Cardinality(DOMAIN workers) = nextWorker
              => JobFrames(tasks, j) = SubmittedFrames(j)
        /\ \A w \in DOMAIN workers, listing \in Listings :
              LET r == dequeueJob(listing)
              IN  r.kind # "None"
                    => JobFrames(dequeueTask(r.task.jobID, r.task.taskNo, w), j)
                          = JobFrames(tasks, j)
        /\ \A t \in TaskNos : \A files \in Orderings(GlobTask(tasks, j, t)) :
              /\ JobFrames(completeTask(j, t, files), j) = JobFrames(tasks, j)
              /\ JobFrames(failTask(j, t, files), j) = JobFrames(tasks, j)
              /\ JobFrames(requeueTask(j, t, files), j) = JobFrames(tasks, j)
        /\ \A files \in Orderings(GlobJob(tasks, j)) :
              JobFrames(MoveEach(tasks, files, db_queued), j) = JobFrames(tasks, j)
        /\ \A p \in PriorityArgs :
              setPriorityWrite(jobs, j, p).jobs[j].tasks = jobs[j].tasks
        /\ \A ids \in TaskIDLists :
              JobFrames(combineTasks(tasks, j, ids), j) = JobFrames(tasks, j)
\* two tasks were combined into frames 1-3, the task was claimed and is
\* completed, and the job has another task
C33_Witness ==
    \E f, g \in tasks :
        /\ f.frames = FrameRange(1, 3)
        /\ f.area = "completed"
        /\ g.jobID = f.jobID
        /\ g.taskNo # f.taskNo
        /\ Cardinality(DOMAIN workers) = nextWorker


\* C34 (SpecDrain): when worker 1 keeps polling and every other worker ends
\* the renders it has started, then from some time on no task is queued or
\* working: every task of every job, of priority 0 too, is completed or
\* failed.
Drained == \A f \in tasks : f.area \in {"completed", "failed"}
C35_PriorityAtClaim ==
    [][\A w \in DOMAIN workers :
          wpc[w] = "selected" /\ wpc'[w] = "rendering" /\ tasks' # tasks
              => /\ \A j \in DOMAIN jobs :
                        jobs[j].priority > jobs[cand[w].jobID].priority
                            => getQueuedTasks(j) = {}
                 /\ \A u \in getQueuedTasks(cand[w].jobID) :
                        u.taskNo >= cand[w].taskNo]_vars


\* C36 (SpecRender): a RenderWorker holds at most one task at a time: the
\* folder of a worker holds at most one task file, and only the task the
\* worker is rendering; and dequeue does nothing for a worker whose status
\* is disabled or rendering.
Held(w) == { f \in tasks : Dir(f) = WorkerDir(w) }
AfterRenderComplete(w, area) ==
    ENABLED (/\ renderComplete(w)
             /\ \E f \in tasks' : /\ f.jobID = rw[w].renderJobID
                                   /\ f.taskNo = rw[w].renderTaskID
                                   /\ f.area = area)
OnlyAfterRenderComplete(w, area) ==
    \A a \in {"queued", "workers", "completed", "failed"} :
        AfterRenderComplete(w, a) <=> a = area
C38_KillStopsWorker ==
    [][\A w \in DOMAIN workers :
          /\ killRenderProcess(w) /\ ~ rw[w].running
                => rw'[w].workerStatus = "disabled"
          /\ renderComplete(w) /\ rw[w].renderTaskInterrupted
                => /\ rw'[w].workerStatus = "disabled"
                   /\ \A f \in GlobTask(tasks', rw[w].renderJobID, rw[w].renderTaskID) :
                         Dir(f) = db_queued]_vars
\* the part of C38 that holds unless the user checks 'Continue After Current
\* Task Completion' between the kill and the end of the render
C38_KillDuringRender ==
    [][\A w \in DOMAIN workers :
          renderComplete(w) /\ rw[w].renderTaskInterrupted /\ rw[w].stopAfterTask
              => /\ rw'[w].workerStatus = "disabled"
                 /\ \A f \in GlobTask(tasks', rw[w].renderJobID, rw[w].renderTaskID) :
                       Dir(f) = db_queued]_vars


\* C39 (SpecDequeue): for every job type and every task a worker has taken,
\* one run of WorkerThread emits exactly one signal for the task's (jobID,
\* taskNo): taskCompleted when the render command succeeded, taskFailed
\* otherwise.
C39_OneSignal ==
    \A f \in tasks :
        f.area = "workers"
            => \A jobType \in JobTypes, result \in BOOLEAN :
                  render_task(jobType, TaskData(f), result).signals
                      = <<[signal |-> IF result THEN "taskCompleted" ELSE "taskFailed",
                           jobID |-> f.jobID, taskNo |-> f.taskNo]>>
\* the part of C39 that holds: a job of type "Generic"
C39_OneSignalGeneric ==
    \A f \in tasks :
        f.area = "workers"
            => \A result \in BOOLEAN :
                  render_task("Generic", TaskData(f), result).signals
                      = <<[signal |-> IF result THEN "taskCompleted" ELSE "taskFailed",
                           jobID |-> f.jobID, taskNo |-> f.taskNo]>>


\* C40: dequeueJob never returns a task of a paused job, a job whose priority
\* is 0, also when that job has queued tasks and no other job has.
C40_PausedJobNotDequeued ==
    \A listing \in Listings :
        LET r == dequeueJob(listing)
        IN  r.kind # "None" => jobs[r.task.jobID].priority # 0

====
